---------------------------- MODULE Spec2Model ----------------------------
(***************************************************************************)
(* Calendar-automation (src/main.py): the free-time calculator             *)
(* (get_free_time), the session allocator (schedule_study_sessions), the   *)
(* calendar reader (get_events) and the calendar writer (add_event).       *)
(*                                                                         *)
(* Time is counted in minutes of local wall clock since Monday 00:00 of    *)
(* week 0 (datetime.weekday() = 0 on Monday).  An aware datetime is a wall *)
(* clock value together with its UTC offset, and two aware datetimes are   *)
(* compared by their UTC instants (wall - off), as Python compares them.   *)
(* The zone keeps one UTC offset over the modelled days.                   *)
(***************************************************************************)
EXTENDS Integers, Sequences, FiniteSets, TLC

VARIABLES
    clock,          \* the wall clock of the machine (local minutes)
    calendar,       \* the events the calendar service stores
    run,            \* number of the current invocation of main
    pc,             \* position of the run in schedule_study_sessions
    fetch_ok,       \* whether get_events returned the service's answer
    events,         \* schedule_study_sessions: events
    ft_today,       \* get_free_time: the date of `today` at line 68
    free_slots,     \* schedule_study_sessions: free_slots
    day_index,      \* schedule_study_sessions: day_index
    today,          \* schedule_study_sessions: today.weekday() (line 126)
    i,              \* index of the enumerate loops (lines 129, 140)
    cursor,         \* session_start / start_time / physics_start
    subject_index,  \* subject_index of the loops
    attempted,      \* history: the calls of add_event, in order
    weekdays,       \* history: today.weekday() as read for each day_index
    failBudget,     \* insertions the service may still reject
    tickBudget      \* minutes the clock may still advance

vars == <<clock, calendar, run, pc, fetch_ok, events, ft_today, free_slots,
          day_index, today, i, cursor, subject_index, attempted, weekdays,
          failBudget, tickBudget>>

-----------------------------------------------------------------------------
(* Bounds of the model *)

MaxEvents == 2
MaxFailures == 1
MaxTicks == 1
MaxInputs == 2
MaxRuns == 2

-----------------------------------------------------------------------------
(* Configuration of the program *)

SESSION_DURATION == 90
DATA_MANAGEMENT_DURATION == 60
TZ_OFFSET == -300
MAX_RESULTS == 100
NUM_DAYS == 7

SUBJECTS ==
    << <<"Physics", 11>>, <<"Calculus and Vectors", 7>>,
       <<"English", 8>>, <<"Data Management", 7>> >>

MinutesPerDay == 24 * 60

\* The wall clock value of hour:minute on date d.
At(d, hour, minute) == d * MinutesPerDay + hour * 60 + minute

DateOf(t) == t \div MinutesPerDay
HourOf(t) == (t % MinutesPerDay) \div 60
MinuteOf(t) == t % 60
\* datetime.weekday(): Monday is 0.
WeekdayOf(t) == DateOf(t) % 7
\* datetime.replace(hour=.., minute=..)
ReplaceTime(t, hour, minute) == At(DateOf(t), hour, minute)

-----------------------------------------------------------------------------
(* The values of an event's start and end objects *)

(* An event's start (or end) object holds "dateTime", "date" or neither, and *)
(* `obj.get("dateTime") or obj.get("date")` (lines 83-84) is the string it   *)
(* holds, or None.  The model keeps that value:                              *)
(*   NoVal        neither key: None                                          *)
(*   Aware(w, o)  "dateTime": wall clock w with UTC offset o                 *)
(*   Naive(w)     "dateTime": wall clock w, no offset                        *)
(*   DateOnly(d)  "date": the date d                                         *)

NoVal == [kind |-> "none", wall |-> 0, off |-> 0]
Aware(w, o) == [kind |-> "aware", wall |-> w, off |-> o]
Naive(w) == [kind |-> "naive", wall |-> w, off |-> 0]
DateOnly(d) == [kind |-> "date", wall |-> d, off |-> 0]

\* Line 86: `not start`.
IsNone(v) == v.kind = "none"

\* Lines 89-90: parser.isoparse.  A date parses to its midnight, without
\* tzinfo; a timestamp keeps its wall clock and its offset, if it has one.
isoparse(v) == IF v.kind = "date" THEN Naive(At(v.wall, 0, 0)) ELSE v

\* Lines 92-95: tz.localize of a parsed timestamp that has no tzinfo.
Localize(v) == IF v.kind = "naive" THEN Aware(v.wall, TZ_OFFSET) ELSE v
\* The UTC instant of an aware datetime.
Utc(v) == v.wall - v.off
\* A datetime of the run (always in the zone) as an aware value.
Local(t) == Aware(t, TZ_OFFSET)

-----------------------------------------------------------------------------
(* get_free_time (lines 65-102) *)

\* IsSkipped, had the event been skipped only when both values are missing.
IsSkippedBoth(start, end) == IsNone(start) /\ IsNone(end)

\* Line 86: `if not start or not end: continue`.
IsSkipped(start, end) == IsNone(start) \/ IsNone(end)

\* Overlaps, had the test been on closed intervals.
OverlapsClosed(slot, start, end) ==
    /\ Utc(Local(slot[1])) <= Utc(end)
    /\ Utc(start) <= Utc(Local(slot[2]))

\* Overlaps, had the test been that the event lies inside the slot.
OverlapsContained(slot, start, end) ==
    /\ Utc(Local(slot[1])) <= Utc(start)
    /\ Utc(end) <= Utc(Local(slot[2]))

\* Line 97: `slot[0] < end and start < slot[1]`, slot in the zone, start and
\* end parsed and localized.
Overlaps(slot, start, end) ==
    /\ Utc(Local(slot[1])) < Utc(end)
    /\ Utc(start) < Utc(Local(slot[2]))

\* FilterSlots, had an overlapped slot been cut at the start of the event
\* instead of dropped.
FilterSlotsTrim(daily_slots, event) ==
    IF IsSkipped(event.start, event.end)
    THEN daily_slots
    ELSE LET start == Localize(isoparse(event.start))
             end == Localize(isoparse(event.end))
             cut == [j \in 1..Len(daily_slots) |->
                       IF Overlaps(daily_slots[j], start, end)
                       THEN <<daily_slots[j][1], Utc(start) + TZ_OFFSET>>
                       ELSE daily_slots[j]]
         IN  SelectSeq(cut, LAMBDA slot : slot[1] < slot[2])

\* Lines 83-97: one iteration of `for event in events`.
FilterSlots(daily_slots, event) ==
    IF IsSkipped(event.start, event.end)
    THEN daily_slots
    ELSE LET start == Localize(isoparse(event.start))
             end == Localize(isoparse(event.end))
         IN  SelectSeq(daily_slots, LAMBDA slot : ~Overlaps(slot, start, end))

RECURSIVE ApplyEvents(_, _)
\* Lines 81-97: the loop over the events, first to last.
ApplyEvents(daily_slots, evs) ==
    IF evs = <<>> THEN daily_slots
    ELSE ApplyEvents(FilterSlots(daily_slots, Head(evs)), Tail(evs))

\* Lines 71-79: morning_slots + afternoon_slots of date d.
DailySlots(d) ==
    << <<At(d, 4, 30), At(d, 8, 0)>>, <<At(d, 15, 45), At(d, 21, 30)>> >>

\* Lines 68-102: `today` is the date of the clock at the call; one entry per
\* day, today advanced by one day each iteration.
get_free_time(evs, now) ==
    [k \in 1..NUM_DAYS |-> ApplyEvents(DailySlots(DateOf(now) + (k - 1)), evs)]

-----------------------------------------------------------------------------
(* get_events (lines 48-62): events().list(timeMin=now, maxResults=100,     *)
(* singleEvents=True, orderBy="startTime")                                  *)

\* timeMin: the events that end after the lower bound, in the order the
\* calendar holds them.  An event with no end cannot be filtered by it.
Upcoming(cal, timeMin) ==
    SelectSeq(cal, LAMBDA e :
        IsNone(e.end) \/ Utc(Localize(isoparse(e.end))) > timeMin)

HasStart(e) == ~IsNone(e.start)
StartKey(e) == Utc(Localize(isoparse(e.start)))

RECURSIVE InsertByStart(_, _)
\* e put into a list sorted by start, after the events that start no later.
InsertByStart(sorted, e) ==
    IF sorted = <<>> THEN <<e>>
    ELSE IF StartKey(Head(sorted)) <= StartKey(e)
         THEN <<Head(sorted)>> \o InsertByStart(Tail(sorted), e)
         ELSE <<e>> \o sorted

RECURSIVE SortByStart(_)
SortByStart(seq) ==
    IF seq = <<>> THEN <<>>
    ELSE InsertByStart(SortByStart(SubSeq(seq, 1, Len(seq) - 1)), seq[Len(seq)])

\* orderBy="startTime".  The service defines no place for an event without a
\* start: such events come first or last.
OrderByStartTime(seq, keylessFirst) ==
    LET keyed == SortByStart(SelectSeq(seq, HasStart))
        keyless == SelectSeq(seq, LAMBDA e : ~HasStart(e))
    IN  IF keylessFirst THEN keyless \o keyed ELSE keyed \o keyless

\* maxResults
FirstResults(seq, n) == SubSeq(seq, 1, IF Len(seq) < n THEN Len(seq) ELSE n)

\* Lines 49-59: the answer of the service at clock value now.
ListEvents(cal, now, keylessFirst) ==
    FirstResults(OrderByStartTime(Upcoming(cal, Utc(Local(now))), keylessFirst),
                 MAX_RESULTS)

-----------------------------------------------------------------------------
(* add_event (lines 105-117) *)

\* Lines 106-111: the body of the insertion.
EventBody(start_time, end_time, subject, color_id) ==
    [summary |-> subject, colorId |-> color_id,
     start |-> Local(start_time), end |-> Local(end_time)]

\* AfterAddEvent, had HttpError not been caught: the run ends.
AbortOnHttpError(ok, next) == IF ok THEN next ELSE "done"

\* Lines 113-117: both outcomes of the insertion return to the caller, which
\* goes on at `next`.
AfterAddEvent(ok, next) == next

\* Lines 105-117: the insertion succeeds (ok) or raises HttpError, which is
\* caught and printed.
add_event(start_time, end_time, subj, ok) ==
    /\ ok \/ failBudget > 0
    /\ calendar' =
         IF ok
         THEN Append(calendar, EventBody(start_time, end_time,
                                         SUBJECTS[subj + 1][1], SUBJECTS[subj + 1][2]))
         ELSE calendar
    /\ failBudget' = IF ok THEN failBudget ELSE failBudget - 1
    /\ attempted' = Append(attempted,
                       [run |-> run, day |-> day_index, subject |-> subj,
                        start |-> start_time, end |-> end_time, ok |-> ok])

-----------------------------------------------------------------------------
(* The inputs of the model: the clock at the start of the first run and the *)
(* events the calendar holds then.  Week 0: Wednesday is date 2.            *)

StartClocks == {At(2, 23, 59)}

Event(name, start, end) ==
    [summary |-> name, colorId |-> 0, start |-> start, end |-> end]

InZone(t) == Aware(t, TZ_OFFSET)

Candidates ==
    << \* inside the morning window of Saturday
       Event("Dentist", InZone(At(5, 5, 0)), InZone(At(5, 6, 0))),
       \* ends when the morning window of Saturday starts
       Event("Run", InZone(At(5, 3, 30)), InZone(At(5, 4, 30))),
       \* starts when the afternoon window of Thursday ends
       Event("Film", InZone(At(3, 21, 30)), InZone(At(3, 22, 30))),
       \* over the last half hour of the afternoon window of Thursday
       Event("Call", InZone(At(3, 21, 0)), InZone(At(3, 22, 0))),
       \* an all-day event on Friday
       Event("Holiday", DateOnly(4), DateOnly(5)),
       \* given in UTC: 04:30-05:30 of Sunday in the zone
       Event("Standup", Aware(At(6, 9, 30), 0), Aware(At(6, 10, 30), 0)),
       \* timestamps without an offset, Sunday afternoon
       Event("Visit", Naive(At(6, 16, 0)), Naive(At(6, 17, 0))),
       \* no start value
       Event("NoStart", NoVal, InZone(At(5, 6, 0))),
       \* no end value
       Event("NoEnd", InZone(At(5, 16, 0)), NoVal),
       \* over before the first run starts
       Event("Past", InZone(At(2, 6, 0)), InZone(At(2, 7, 0))),
       \* Monday evening to Tuesday morning of the next week
       Event("Night", InZone(At(7, 21, 0)), InZone(At(8, 5, 0))) >>

\* The calendars of at most n of the candidates, in the order above.
Calendars(n) ==
    {SelectSeq(Candidates, LAMBDA e : e.summary \in names) :
        names \in {N \in SUBSET {Candidates[k].summary : k \in 1..Len(Candidates)} :
                      Cardinality(N) <= n}}

-----------------------------------------------------------------------------
(* schedule_study_sessions (lines 120-163).  An action is a step that meets *)
(* the world: a read of the clock, a call of the calendar service.  The     *)
(* control flow between two such steps is RunToCall.                        *)

NoSlots == [k \in 1..NUM_DAYS |-> <<>>]

\* Line 130 and line 141: the test that tells the window of a slot.
IsMorning(slot) == HourOf(slot[1]) = 4 /\ MinuteOf(slot[1]) = 30
IsAfternoon(slot) == HourOf(slot[1]) = 15 /\ MinuteOf(slot[1]) = 45

\* Line 142: `today.weekday() not in [3, 4]`.
StandardDay(weekday) == weekday \notin {3, 4}

\* WhileCond, had the loops stopped after one session.
WhileCondOne(start, end_time, subj) ==
    start + SESSION_DURATION <= end_time /\ subj < 1

\* Lines 133 and 158: the condition of the two while loops.
WhileCond(start, end_time, subj) ==
    start + SESSION_DURATION <= end_time /\ subj < 2

\* BlockFits, had the block been tested with the length of a session.
BlockFitsAsSession(start, end_time) == start + SESSION_DURATION <= end_time

\* Line 145: a 90-minute session fits; line 151: the 60-minute block fits.
SessionFits(start, end_time) == start + SESSION_DURATION <= end_time
BlockFits(start, end_time) == start + DATA_MANAGEMENT_DURATION <= end_time

\* Line 156: physics_start = start_time.replace(hour=16, minute=45).
SpecialAnchor(start_time) == ReplaceTime(start_time, 16, 45)

RECURSIVE RunToCall(_, _, _)
\* Lines 129-163 of one day (its slots sl, its weekday wd): from the control
\* state c = [pc, i, cursor, subject_index, day_index] on to the next call of
\* add_event (pc morning_while, standard or special_while, the call's
\* arguments in cursor and subject_index), or to the end of the day (pc day).
RunToCall(c, sl, wd) ==
    CASE c.pc = "morning" ->
           IF c.i < Len(sl)
           THEN IF IsMorning(sl[c.i + 1])
                THEN RunToCall([c EXCEPT !.pc = "morning_while",
                                         !.cursor = sl[c.i + 1][1],
                                         !.subject_index = 0], sl, wd)
                ELSE RunToCall([c EXCEPT !.i = c.i + 1], sl, wd)
           ELSE RunToCall([c EXCEPT !.pc = "afternoon", !.i = 0], sl, wd)
      [] c.pc = "morning_while" ->
           IF WhileCond(c.cursor, sl[c.i + 1][2], c.subject_index)
           THEN c
           ELSE RunToCall([c EXCEPT !.pc = "morning", !.i = c.i + 1], sl, wd)
      [] c.pc = "afternoon" ->
           IF c.i < Len(sl)
           THEN IF IsAfternoon(sl[c.i + 1])
                THEN IF StandardDay(wd)
                     THEN RunToCall([c EXCEPT !.pc = "standard",
                                              !.cursor = sl[c.i + 1][1],
                                              !.subject_index = 0], sl, wd)
                     ELSE RunToCall([c EXCEPT !.pc = "special_while",
                                              !.cursor = SpecialAnchor(sl[c.i + 1][1]),
                                              !.subject_index = 0], sl, wd)
                ELSE RunToCall([c EXCEPT !.i = c.i + 1], sl, wd)
           ELSE [c EXCEPT !.pc = "day", !.day_index = c.day_index + 1]
      [] c.pc = "standard" ->
           IF c.subject_index < 3
           THEN IF SessionFits(c.cursor, sl[c.i + 1][2])
                THEN c
                ELSE RunToCall([c EXCEPT !.subject_index = c.subject_index + 1],
                               sl, wd)
           ELSE IF BlockFits(c.cursor, sl[c.i + 1][2])
                THEN c
                ELSE RunToCall([c EXCEPT !.pc = "afternoon", !.i = c.i + 1],
                               sl, wd)
      [] c.pc = "special_while" ->
           IF WhileCond(c.cursor, sl[c.i + 1][2], c.subject_index)
           THEN c
           ELSE RunToCall([c EXCEPT !.pc = "afternoon", !.i = c.i + 1], sl, wd)
      [] OTHER -> c

slots == free_slots[day_index + 1]

control ==
    [pc |-> pc, i |-> i, cursor |-> cursor, subject_index |-> subject_index,
     day_index |-> day_index]

\* The run goes on from control state c.
Continue(c) ==
    /\ pc' = c.pc
    /\ i' = c.i
    /\ cursor' = c.cursor
    /\ subject_index' = c.subject_index
    /\ day_index' = c.day_index

Init ==
    /\ clock \in StartClocks
    /\ calendar \in Calendars(MaxEvents)
    /\ failBudget \in 0..MaxFailures
    /\ tickBudget \in 0..MaxTicks
    /\ Len(calendar) + failBudget + tickBudget = MaxInputs
    /\ run = 1
    /\ pc = "start"
    /\ fetch_ok = FALSE
    /\ events = <<>>
    /\ ft_today = 0
    /\ free_slots = NoSlots
    /\ day_index = 0
    /\ today = 0
    /\ i = 0
    /\ cursor = 0
    /\ subject_index = 0
    /\ attempted = <<>>
    /\ weekdays = <<>>

\* A minute passes.  The run reads the clock at lines 49, 68 and 126 only:
\* time that passes anywhere else shows at the next of these reads.
Tick ==
    /\ pc \in {"start", "free", "day"}
    /\ tickBudget > 0
    /\ clock' = clock + 1
    /\ tickBudget' = tickBudget - 1
    /\ UNCHANGED <<calendar, run, pc, fetch_ok, events, ft_today, free_slots,
                   day_index, today, i, cursor, subject_index, attempted,
                   weekdays, failBudget>>

\* Lines 121, 49-59: get_events returns the items of the answer.
GetEvents ==
    /\ pc = "start"
    /\ \E keylessFirst \in BOOLEAN :
          events' = ListEvents(calendar, clock, keylessFirst)
    /\ fetch_ok' = TRUE
    /\ pc' = "free"
    /\ UNCHANGED <<clock, calendar, run, ft_today, free_slots, day_index, today,
                   i, cursor, subject_index, attempted, weekdays, failBudget,
                   tickBudget>>

\* Lines 121, 60-62: the call raises HttpError and get_events returns [].
GetEventsHttpError ==
    /\ pc = "start"
    /\ failBudget > 0
    /\ failBudget' = failBudget - 1
    /\ events' = <<>>
    /\ fetch_ok' = FALSE
    /\ pc' = "free"
    /\ UNCHANGED <<clock, calendar, run, ft_today, free_slots, day_index, today,
                   i, cursor, subject_index, attempted, weekdays, tickBudget>>

\* Line 122: free_slots = get_free_time(events); line 124 starts the loop.
GetFreeTime ==
    /\ pc = "free"
    /\ ft_today' = DateOf(clock)
    /\ free_slots' = get_free_time(events, clock)
    /\ day_index' = 0
    /\ pc' = "day"
    /\ UNCHANGED <<clock, calendar, run, fetch_ok, events, today, i, cursor,
                   subject_index, attempted, weekdays, failBudget, tickBudget>>

\* Lines 124-126: the next day of the loop, today = now + day_index days;
\* then on to the day's first call of add_event.
DayStart ==
    /\ pc = "day"
    /\ day_index < NUM_DAYS
    /\ today' = WeekdayOf(clock + day_index * MinutesPerDay)
    /\ weekdays' = Append(weekdays, today')
    /\ Continue(RunToCall([control EXCEPT !.pc = "morning", !.i = 0],
                          slots, today'))
    /\ UNCHANGED <<clock, calendar, run, fetch_ok, events, ft_today, free_slots,
                   attempted, failBudget, tickBudget>>

\* Line 124: the loop over the days is over, and so is the run.
Finish ==
    /\ pc = "day"
    /\ day_index = NUM_DAYS
    /\ pc' = "done"
    /\ UNCHANGED <<clock, calendar, run, fetch_ok, events, ft_today, free_slots,
                   day_index, today, i, cursor, subject_index, attempted,
                   weekdays, failBudget, tickBudget>>

\* What the three loops do after their call of add_event: the next session
\* starts where this one ends, for the next subject (lines 137-138, 149 with
\* the loop variable of line 144, 162-163).
AfterSession(c) ==
    [c EXCEPT !.cursor = c.cursor + SESSION_DURATION,
              !.subject_index = c.subject_index + 1]

\* Lines 133-138: one iteration of the morning loop.
MorningSession(ok) ==
    /\ pc = "morning_while"
    /\ add_event(cursor, cursor + SESSION_DURATION, subject_index, ok)
    /\ Continue(RunToCall(
           [AfterSession(control) EXCEPT !.pc = AfterAddEvent(ok, "morning_while")],
           slots, today))
    /\ UNCHANGED <<clock, run, fetch_ok, events, ft_today, free_slots, today,
                   weekdays, tickBudget>>

\* Lines 144-149: one iteration of `for subject_index in subjects_order`.
StandardSession(ok) ==
    /\ pc = "standard"
    /\ subject_index < 3
    /\ add_event(cursor, cursor + SESSION_DURATION, subject_index, ok)
    /\ Continue(RunToCall(
           [AfterSession(control) EXCEPT !.pc = AfterAddEvent(ok, "standard")],
           slots, today))
    /\ UNCHANGED <<clock, run, fetch_ok, events, ft_today, free_slots, today,
                   weekdays, tickBudget>>

\* Lines 151-154: the 60-minute block of SUBJECTS[3] after the three
\* sessions; line 140 takes the next slot.
TrailingBlock(ok) ==
    /\ pc = "standard"
    /\ subject_index = 3
    /\ add_event(cursor, cursor + DATA_MANAGEMENT_DURATION, 3, ok)
    /\ Continue(RunToCall(
           [control EXCEPT !.pc = AfterAddEvent(ok, "afternoon"), !.i = i + 1],
           slots, today))
    /\ UNCHANGED <<clock, run, fetch_ok, events, ft_today, free_slots, today,
                   weekdays, tickBudget>>

\* Lines 158-163: one iteration of the Thursday/Friday loop.
SpecialSession(ok) ==
    /\ pc = "special_while"
    /\ add_event(cursor, cursor + SESSION_DURATION, subject_index, ok)
    /\ Continue(RunToCall(
           [AfterSession(control) EXCEPT !.pc = AfterAddEvent(ok, "special_while")],
           slots, today))
    /\ UNCHANGED <<clock, run, fetch_ok, events, ft_today, free_slots, today,
                   weekdays, tickBudget>>

\* Lines 165-170: main is invoked again.
Rerun ==
    /\ pc = "done"
    /\ run < MaxRuns
    /\ run' = run + 1
    /\ pc' = "start"
    /\ fetch_ok' = FALSE
    /\ events' = <<>>
    /\ ft_today' = 0
    /\ free_slots' = NoSlots
    /\ day_index' = 0
    /\ today' = 0
    /\ i' = 0
    /\ cursor' = 0
    /\ subject_index' = 0
    /\ weekdays' = <<>>
    /\ UNCHANGED <<clock, calendar, attempted, failBudget, tickBudget>>

RunNext ==
    \/ Tick
    \/ GetEvents
    \/ GetEventsHttpError
    \/ GetFreeTime
    \/ DayStart
    \/ Finish
    \/ \E ok \in BOOLEAN : MorningSession(ok)
    \/ \E ok \in BOOLEAN : StandardSession(ok)
    \/ \E ok \in BOOLEAN : TrailingBlock(ok)
    \/ \E ok \in BOOLEAN : SpecialSession(ok)

Next == RunNext

Spec == Init /\ [][Next]_vars

\* Two invocations of main, one after the other, on an empty calendar.
InitRerun ==
    /\ Init
    /\ calendar = <<>>

NextRerun == RunNext \/ Rerun

SpecRerun == InitRerun /\ [][NextRerun]_vars

-----------------------------------------------------------------------------
(* What the claims speak of *)

\* The busy interval of a fetched event, in minutes of the zone's wall clock.
BusyTime(v) ==
    CASE v.kind = "aware" -> v.wall - v.off + TZ_OFFSET
      [] v.kind = "naive" -> v.wall
      [] v.kind = "date" -> v.wall * MinutesPerDay
      [] OTHER -> 0

WellFormed(e) == e.start.kind # "none" /\ e.end.kind # "none"

\* The fetched events that have a start and an end.
Busy == {n \in 1..Len(events) : WellFormed(events[n])}

\* Event n is busy during some part of [from, to).
BusyIn(n, from, to) ==
    BusyTime(events[n].start) < to /\ from < BusyTime(events[n].end)

\* get_free_time has returned; it has just returned.
Computed == pc \notin {"start", "free"}
Returned == pc = "day" /\ day_index = 0

Days == 0..(NUM_DAYS - 1)
MorningWindow(d) == <<At(ft_today + d, 4, 30), At(ft_today + d, 8, 0)>>
AfternoonWindow(d) == <<At(ft_today + d, 15, 45), At(ft_today + d, 21, 30)>>
Windows(d) == {MorningWindow(d), AfternoonWindow(d)}

FreeSet(d) == {free_slots[d + 1][j] : j \in 1..Len(free_slots[d + 1])}

\* The calls of add_event of the current run, and those of day d.
Calls == {k \in 1..Len(attempted) : attempted[k].run = run}
\* The current run has called add_event; its latest call.
HasCalled == attempted # <<>> /\ attempted[Len(attempted)].run = run
LastCall == attempted[Len(attempted)]
\* The sessions of the current run on day d that start in [from, to), in the
\* order of their calls.
SessionsIn(d, from, to) ==
    LET picked == SelectSeq(attempted, LAMBDA a :
                      /\ a.run = run /\ a.day = d
                      /\ from <= a.start /\ a.start < to)
    IN  [k \in 1..Len(picked) |->
            <<picked[k].subject, picked[k].start, picked[k].end>>]
MorningSessions(d) ==
    SessionsIn(d, At(ft_today + d, 0, 0), At(ft_today + d, 12, 0))
AfternoonSessions(d) ==
    SessionsIn(d, At(ft_today + d, 12, 0), At(ft_today + d + 1, 0, 0))

\* The run is over: the allocator has finished its days.
Done == Computed /\ pc = "done"

-----------------------------------------------------------------------------
\* C1: every session passed to add_event lies inside one free interval that
\* get_free_time returned for its day, and overlaps no fetched busy interval;
\* so do the sessions anchored at 16:45.  (Every call is the latest call in
\* the state that follows it.)
C1_SessionsInsideFreeIntervals ==
    (Computed /\ HasCalled) =>
        LET a == LastCall
        IN  /\ Cardinality({slot \in FreeSet(a.day) :
                               slot[1] <= a.start /\ a.end <= slot[2]}) = 1
            /\ a.start < a.end
            /\ \A n \in Busy : ~BusyIn(n, a.start, a.end)

\* A session anchored at 16:45 was passed to add_event in a run that fetched
\* a busy interval.
C1_Witness ==
    /\ Busy # {}
    /\ \E k \in Calls :
          HourOf(attempted[k].start) = 16 /\ MinuteOf(attempted[k].start) = 45

\* C2: a window that any busy interval overlaps in any part is dropped whole
\* for that day: no free interval that get_free_time returns for the day
\* covers any part of it, and no session is emitted in it: a window in which
\* a session is emitted is one that no busy interval overlaps.  (Every call
\* is the latest call in the state that follows it.)
C2_WholeWindowBlackout ==
    /\ Returned =>
          \A d \in Days : \A w \in Windows(d) :
              (\E n \in Busy : BusyIn(n, w[1], w[2])) =>
                  \A slot \in FreeSet(d) : ~(slot[1] < w[2] /\ w[1] < slot[2])
    /\ (Computed /\ HasCalled) =>
          \A d \in Days : \A w \in Windows(d) :
              (LastCall.start < w[2] /\ w[1] < LastCall.end) =>
                  ~\E n \in Busy : BusyIn(n, w[1], w[2])

\* The run is over; a busy interval lay inside a morning window without
\* filling it, and the run emitted sessions on other days.
C2_Witness ==
    /\ pc = "done"
    /\ \E d \in Days : \E n \in Busy :
          /\ MorningWindow(d)[1] < BusyTime(events[n].start)
          /\ BusyTime(events[n].end) < MorningWindow(d)[2]
          /\ MorningSessions(d) = <<>>
    /\ Calls # {}

-----------------------------------------------------------------------------
\* The three 90-minute sessions from the start of the afternoon window of
\* day d, and the 60-minute block of subject 3 after them.
ThreeSessions(d) ==
    LET from == AfternoonWindow(d)[1]
    IN  << <<0, from, from + 90>>, <<1, from + 90, from + 180>>,
           <<2, from + 180, from + 270>> >>
TrailingSession(d) ==
    LET from == AfternoonWindow(d)[1] + 270
    IN  << <<3, from, from + 60>> >>

\* C3 as claimed: with an empty busy list, on a day that is not Thursday or
\* Friday, the afternoon holds exactly the three 90-minute sessions of
\* subjects 0, 1, 2 and no block of subject 3.
C3_ThreeSessionsAndNoBlock ==
    \A d \in Days :
        (/\ Done /\ events = <<>>
         /\ WeekdayOf(AfternoonWindow(d)[1]) \notin {3, 4})
        => AfternoonSessions(d) = ThreeSessions(d)

\* C3 as amended: with an empty busy list, on a day for which the allocator
\* read a weekday other than Thursday and Friday, the afternoon holds the
\* three 90-minute sessions of subjects 0, 1, 2 from 15:45 to 20:15 and then
\* the 60-minute block of subject 3 from 20:15 to 21:15.
C3_ThreeSessionsThenBlock ==
    \A d \in Days :
        (/\ Done /\ events = <<>>
         /\ d < Len(weekdays) /\ weekdays[d + 1] \notin {3, 4})
        => AfternoonSessions(d) = ThreeSessions(d) \o TrailingSession(d)

\* A run with an empty busy list is over and has placed a block of subject 3
\* from 20:15 to 21:15.
C3_Witness ==
    /\ pc = "done" /\ events = <<>>
    /\ \E k \in Calls :
          /\ attempted[k].subject = 3
          /\ HourOf(attempted[k].start) = 20 /\ MinuteOf(attempted[k].start) = 15
          /\ HourOf(attempted[k].end) = 21 /\ MinuteOf(attempted[k].end) = 15

-----------------------------------------------------------------------------
\* C4: in the second of two runs, whose fetch succeeded, no session passed
\* to add_event overlaps a session the first run wrote.
C4_NoDoubleBooking ==
    (run = 2 /\ fetch_ok) =>
        \A k2 \in Calls : \A k1 \in 1..Len(attempted) :
            (attempted[k1].run = 1 /\ attempted[k1].ok) =>
                ~(/\ attempted[k1].start < attempted[k2].end
                  /\ attempted[k2].start < attempted[k1].end)

-----------------------------------------------------------------------------
\* The sessions the allocator emits on day d when every insertion succeeds,
\* for the weekday wd it read for that day.
PlannedDay(d, wd) ==
    LET m == MorningWindow(d)
        a == AfternoonWindow(d)
        anchor == At(ft_today + d, 16, 45)
    IN  (IF m \in FreeSet(d)
         THEN << <<0, m[1], m[1] + 90>>, <<1, m[1] + 90, m[1] + 180>> >>
         ELSE <<>>)
        \o
        (IF a \notin FreeSet(d) THEN <<>>
         ELSE IF wd \notin {3, 4}
              THEN ThreeSessions(d) \o TrailingSession(d)
              ELSE << <<0, anchor, anchor + 90>>, <<1, anchor + 90, anchor + 180>> >>)

\* C5: a failed insertion does not abort the run: the sessions passed to
\* add_event on every day of a finished run are those of a run in which every
\* insertion succeeds, the run ends only after its seventh day, and at its
\* end the sessions written are all in the calendar, in the order of their
\* writing.
C5_InsertFailureDoesNotAbort ==
    /\ Done => Len(weekdays) = NUM_DAYS
    /\ \A d \in Days :
          (Done /\ d < Len(weekdays)) =>
              SessionsIn(d, At(ft_today + d, 0, 0), At(ft_today + d + 1, 0, 0))
                  = PlannedDay(d, weekdays[d + 1])
    /\ Done =>
       LET written == SelectSeq(attempted, LAMBDA a : a.ok)
           before == Len(calendar) - Len(written)
       IN  /\ before >= 0
           /\ \A k \in 1..Len(written) :
                 /\ calendar[before + k].summary = SUBJECTS[written[k].subject + 1][1]
                 /\ calendar[before + k].start = Aware(written[k].start, TZ_OFFSET)
                 /\ calendar[before + k].end = Aware(written[k].end, TZ_OFFSET)

\* The run is over; an insertion failed, and insertions followed it on the
\* same day and on a later day.
C5_Witness ==
    /\ pc = "done"
    /\ \E k \in Calls :
          /\ ~attempted[k].ok
          /\ k + 1 \in Calls /\ attempted[k + 1].day = attempted[k].day
          /\ \E l \in Calls : attempted[l].day > attempted[k].day

-----------------------------------------------------------------------------
\* C6: when the run is over, on a day whose morning window is free, the morning sessions
\* are exactly subject 0 at 04:30-06:00 and subject 1 at 06:00-07:30; on a
\* day whose morning window is not free there is no morning session.
C6_TwoMorningSessions ==
    \A d \in Days :
        Done =>
            MorningSessions(d) =
                IF MorningWindow(d) \in FreeSet(d)
                THEN << <<0, At(ft_today + d, 4, 30), At(ft_today + d, 6, 0)>>,
                        <<1, At(ft_today + d, 6, 0), At(ft_today + d, 7, 30)>> >>
                ELSE <<>>

\* The run is over; one day had its morning window and its two sessions,
\* another had neither.
C6_Witness ==
    /\ pc = "done"
    /\ \E d \in Days : MorningWindow(d) \in FreeSet(d) /\ Len(MorningSessions(d)) = 2
    /\ \E d \in Days : MorningWindow(d) \notin FreeSet(d) /\ MorningSessions(d) = <<>>

-----------------------------------------------------------------------------
\* C7: when the run is over, on a Thursday or Friday whose afternoon window
\* is free, the
\* afternoon sessions are exactly subject 0 at 16:45-18:15 and subject 1 at
\* 18:15-19:45.
C7_ThursdayFridayAnchored ==
    \A d \in Days :
        (/\ Done
         /\ WeekdayOf(AfternoonWindow(d)[1]) \in {3, 4}
         /\ AfternoonWindow(d) \in FreeSet(d))
        => AfternoonSessions(d) =
               << <<0, At(ft_today + d, 16, 45), At(ft_today + d, 18, 15)>>,
                  <<1, At(ft_today + d, 18, 15), At(ft_today + d, 19, 45)>> >>

-----------------------------------------------------------------------------
-----------------------------------------------------------------------------
\* C9: a window is in the free set get_free_time returns for its day,
\* unchanged, exactly when no busy
\* interval has busy.start < window.end and window.start < busy.end; a busy
\* interval that only touches a boundary of the window, or lies on another
\* day, leaves it there.
C9_OpenIntervalOverlap ==
    Returned =>
        \A d \in Days :
            free_slots[d + 1] =
                SelectSeq(<<MorningWindow(d), AfternoonWindow(d)>>,
                          LAMBDA w : ~\E n \in Busy : BusyIn(n, w[1], w[2]))

\* A busy interval ends where a morning window starts, another starts where
\* an afternoon window ends, and both windows are free.
C9_Witness ==
    /\ Computed
    /\ \E d \in Days : \E n \in Busy :
          /\ BusyTime(events[n].end) = MorningWindow(d)[1]
          /\ MorningWindow(d) \in FreeSet(d)
    /\ \E d \in Days : \E n \in Busy :
          /\ BusyTime(events[n].start) = AfternoonWindow(d)[2]
          /\ AfternoonWindow(d) \in FreeSet(d)

-----------------------------------------------------------------------------
\* C10: while the allocator fills an afternoon free interval, the weekday it
\* chose the rule by is the weekday of the date of that interval.
C10_WeekdayOfIntervalDate ==
    pc \in {"standard", "special_while"} => today = WeekdayOf(slots[i + 1][1])

=============================================================================
